---- MODULE Spec2Model ----
(***************************************************************************)
(* A model of te_toolbox/entropies.py: the memoized discretizer, the       *)
(* discrete entropy engine, the continuous facade and the derived          *)
(* transfer entropy measures.                                              *)
(*                                                                         *)
(* Conventions.                                                            *)
(*  - A real number of the input data is an integer (every value of the    *)
(*    input domains below is exactly representable as a float, and so is   *)
(*    every interior linspace edge that coincides with a data value).      *)
(*  - An entropy is kept exactly, as a rational combination of logarithms  *)
(*    of primes: [den |-> d, co |-> [p \in Primes |-> c_p]] stands for     *)
(*    (1/d) * SUM_p c_p * ln p.  The logarithms of the primes are linearly *)
(*    independent over the rationals, so two normalised values are equal   *)
(*    exactly when the real numbers are.  Floating point rounding is not   *)
(*    modelled.                                                            *)
(*  - Variables are numbered from 1 here and from 0 in the source: entry   *)
(*    [i,j] of the source is M[i+1][j+1] of the model.                     *)
(*  - A 2D array [timesteps x variables] is the sequence of its columns.   *)
(***************************************************************************)
EXTENDS Integers, Sequences, FiniteSets, TLC

VARIABLES pc, call, out, cache1d, cacheNd

vars == <<pc, call, out, cache1d, cacheNd>>

(***************************************************************************)
(* Bounds of the model.                                                    *)
(***************************************************************************)
\* largest data value handed to _discretize_1d_data directly
MaxVal == 3
\* longest data column handed to _discretize_1d_data directly
MaxLen == 3
\* largest integer bin count handed to _discretize_1d_data directly
MaxBins == 3
\* most rows of a class-label matrix handed to the discrete_* operations
MaxRows == 4
\* most rows of a data array handed to the facade operations
MaxRowsF == 3
\* the capacity of each LRU cache in the model (maxsize=1024 in the source)
CacheCap == 2

Max(a, b) == IF a > b THEN a ELSE b
Min(a, b) == IF a < b THEN a ELSE b
Abs(a) == IF a < 0 THEN 0 - a ELSE a

SeqsUpTo(S, lo, hi) == UNION {[1..n -> S] : n \in lo..hi}

(***************************************************************************)
(* Exact arithmetic on rational combinations of logarithms of primes.      *)
(***************************************************************************)
MaxSteps == Max(Max(MaxRows, MaxRowsF), MaxLen)

Primes == {p \in 2..MaxSteps : \A d \in 2..(p - 1) : p % d # 0}

RECURSIVE GCD(_, _)
GCD(a, b) == IF b = 0 THEN a ELSE GCD(b, a % b)

RECURSIVE Val(_, _)
\* the exponent of the prime p in m >= 1
Val(p, m) == IF m % p = 0 THEN 1 + Val(p, m \div p) ELSE 0

RECURSIVE GcdOver(_, _, _)
GcdOver(f, S, g) ==
    IF S = {} THEN g
    ELSE LET p == CHOOSE q \in S : TRUE
         IN GcdOver(f, S \ {p}, GCD(g, Abs(f[p])))

\* the normal form: den > 0 and gcd(den, co) = 1
Norm(v) ==
    LET g == GcdOver(v.co, Primes, v.den)
    IN [den |-> v.den \div g, co |-> [p \in Primes |-> v.co[p] \div g]]

Zero == [den |-> 1, co |-> [p \in Primes |-> 0]]

Add(a, b) ==
    Norm([den |-> a.den * b.den,
          co |-> [p \in Primes |-> a.co[p] * b.den + b.co[p] * a.den]])

Sub(a, b) ==
    Norm([den |-> a.den * b.den,
          co |-> [p \in Primes |-> a.co[p] * b.den - b.co[p] * a.den]])

RECURSIVE SumCo(_, _, _, _)
\* n times the coefficient of ln p in the sum over the cells 1..m of
\* -(c/n) * ln(c/n) = (c/n) * (ln n - ln c), c = h[k] > 0 the cell's count
SumCo(h, m, n, p) ==
    IF m = 0 THEN 0
    ELSE IF h[m] > 0 THEN SumCo(h, m - 1, n, p) + h[m] * (Val(p, n) - Val(p, h[m]))
    ELSE SumCo(h, m - 1, n, p)

\* -np.sum(p[nonzero] * np.log(p[nonzero])) over the flattened histogram
\* h (cell k of 1..m holds h[k] samples), each p = h[k] / n.  With n = 0
\* every p is 0/0 = nan, no cell passes p > 0, and the sum is empty.
SumTerms(h, m, n) ==
    IF n = 0 THEN Zero
    ELSE Norm([den |-> n, co |-> [p \in Primes |-> SumCo(h, m, n, p)]])

(***************************************************************************)
(* Input domains.                                                          *)
(***************************************************************************)
Columns == SeqsUpTo(0..MaxVal, 1, MaxLen)

\* explicit edges: strictly increasing sequences of at least one edge
EdgeSeqs ==
    {e \in SeqsUpTo(0..MaxVal, 1, MaxVal + 1) :
        \A k \in 1..(Len(e) - 1) : e[k] < e[k + 1]}

IntBins(n) == [kind |-> "int", n |-> n, e |-> <<>>]
EdgeBins(e) == [kind |-> "edges", n |-> 0, e |-> e]

BinSpecs == {IntBins(n) : n \in 1..MaxBins} \cup {EdgeBins(e) : e \in EdgeSeqs}

(***************************************************************************)
(* The discretizer.                                                        *)
(***************************************************************************)
SeqMin(s) == CHOOSE x \in {s[k] : k \in 1..Len(s)} : \A k \in 1..Len(s) : x <= s[k]
SeqMax(s) == CHOOSE x \in {s[k] : k \in 1..Len(s)} : \A k \in 1..Len(s) : x >= s[k]

Ok(v) == [err |-> FALSE, val |-> v]
Raise == [err |-> TRUE, val |-> <<>>]

\* np.digitize(x, edges, right=True) on the same edges: the number of
\* edges < x
DigitizeLinspaceRight(x, lo, hi, n) ==
    Cardinality({k \in 0..n : lo * n + k * (hi - lo) < x * n})

\* np.digitize(x, edges, right=False) for the integer-count path, where
\* edge k (0 <= k <= n) is lo + k * (hi - lo) / n: the number of edges <= x.
\* Equal edges (lo = hi) count as monotonically increasing.
DigitizeLinspace(x, lo, hi, n) ==
    Cardinality({k \in 0..n : lo * n + k * (hi - lo) <= x * n})

\* np.digitize(x, edges, right=False) for increasing explicit edges
DigitizeEdges(x, e) == Cardinality({k \in 1..Len(e) : e[k] <= x})

\* a discretizer that leaves the rightmost edge outside the last bin
ClipRightMissing(ix, n_bins) == ix

\* np.where(indices == n_bins, n_bins - 1, indices)
ClipRight(ix, n_bins) == IF ix = n_bins THEN n_bins - 1 ELSE ix

\* a range check that forgets the upper edge
OutOfRangeBelowOnly(data, bins) == SeqMin(data) < bins.e[1]

\* the range check of explicit edges
OutOfRange(data, bins) == SeqMin(data) < bins.e[1] \/ SeqMax(data) > bins.e[Len(bins.e)]

discretize_1d_data(data, bins) ==
    IF bins.kind = "int"
    THEN LET lo == SeqMin(data)
             hi == SeqMax(data)
             n_bins == (bins.n + 1) - 1
         IN Ok([idx |-> [t \in 1..Len(data) |->
                            ClipRight(DigitizeLinspace(data[t], lo, hi, bins.n) - 1, n_bins)],
                nb |-> n_bins])
    ELSE IF OutOfRange(data, bins) THEN Raise
    ELSE LET n_bins == Len(bins.e) - 1
         IN Ok([idx |-> [t \in 1..Len(data) |->
                            ClipRight(DigitizeEdges(data[t], bins.e) - 1, n_bins)],
                nb |-> n_bins])

(***************************************************************************)
(* functools.lru_cache: a cache is the sequence of its entries, the least  *)
(* recently used first.  A call that raises stores nothing.                *)
(***************************************************************************)
maxsize == CacheCap

CacheKey(a, b) == <<a, b>>

\* a lookup that compares the data and forgets the bins
FindByData(cache, key) == {k \in 1..Len(cache) : cache[k].key[1] = key[1]}

\* the entries stored under a key: keys are compared by value
Find(cache, key) == {k \in 1..Len(cache) : cache[k].key = key}

Without(cache, k) == SubSeq(cache, 1, k - 1) \o SubSeq(cache, k + 1, Len(cache))

\* a hit moves the entry to the most recently used end
Touch(cache, k) == Without(cache, k) \o <<cache[k]>>

\* a miss appends the entry and evicts the least recently used one when full
Insert(cache, key, v) ==
    LET c == cache \o <<[key |-> key, val |-> v]>>
    IN IF Len(c) > maxsize THEN Tail(c) ELSE c

\* the cache after a miss whose call gave r: an exception stores nothing
Store(cache, key, r) == IF r.err THEN cache ELSE Insert(cache, key, r.val)

\* the cache and the result after a hit on entry k
Hit1d(c1, k) == [c1 |-> Touch(c1, k), r |-> Ok(c1[k].val)]

\* the cache and the result after a miss whose call gave r
Miss1d(c1, key, r) == [c1 |-> Store(c1, key, r), r |-> r]

\* _discretize_1d_data behind its cache: [c1 |-> cache after, r |-> result]
Cached1d(c1, data, bins) ==
    LET hit == Find(c1, CacheKey(data, bins))
    IN IF hit # {}
       THEN Hit1d(c1, CHOOSE x \in hit : TRUE)
       ELSE Miss1d(c1, CacheKey(data, bins), discretize_1d_data(data, bins))

\* a plain zip, which stops at the shorter argument without an error
ZipPlain(D, B, k) == FALSE

\* zip(data_tuple, bins_tuple, strict=True) raises at position k when one
\* argument is exhausted and the other is not
ZipStrictRaises(D, B, k) == (k > Len(D)) # (k > Len(B))

RECURSIVE ZipDiscretize(_, _, _, _, _)
\* the generator after pair k gave res: an exception ends it, else the
\* labels join the tuple and the next pair is drawn
ZipStep(res, D, B, k, acc) ==
    IF res.r.err THEN [c1 |-> res.c1, r |-> Raise]
    ELSE ZipDiscretize(res.c1, D, B, k + 1, Append(acc, res.r.val))

\* tuple(_discretize_1d_data(d, b) for d, b in zip(..., strict=True)), from
\* position k on: the pairs are discretized (and cached) one by one
ZipDiscretize(c1, D, B, k, acc) ==
    IF ZipStrictRaises(D, B, k) THEN [c1 |-> c1, r |-> Raise]
    ELSE IF k > Len(D) \/ k > Len(B) THEN [c1 |-> c1, r |-> Ok(acc)]
    ELSE ZipStep(Cached1d(c1, D[k], B[k]), D, B, k, acc)

\* the body of _discretize_nd_data
discretize_nd_data(c1, data_tuple, bins_tuple) ==
    ZipDiscretize(c1, data_tuple, bins_tuple, 1, <<>>)

\* _discretize_nd_data behind its cache; st = [c1 |-> ..., cN |-> ...] holds
\* the two caches: [st |-> caches after, r |-> result].  After a hit on
\* entry k:
HitNd(st, k) == [st |-> [c1 |-> st.c1, cN |-> Touch(st.cN, k)], r |-> Ok(st.cN[k].val)]

\* the caches and the result after a miss whose call gave res
MissNd(st, key, res) == [st |-> [c1 |-> res.c1, cN |-> Store(st.cN, key, res.r)], r |-> res.r]

CachedNd(st, data_tuple, bins_tuple) ==
    LET hit == Find(st.cN, CacheKey(data_tuple, bins_tuple))
    IN IF hit # {}
       THEN HitNd(st, CHOOSE x \in hit : TRUE)
       ELSE MissNd(st, CacheKey(data_tuple, bins_tuple),
                   discretize_nd_data(st.c1, data_tuple, bins_tuple))

(***************************************************************************)
(* The discrete entropy engine.  A class-label array is the sequence of    *)
(* its columns; n_classes is an integer or a list.                         *)
(***************************************************************************)
IntClasses(n) == [kind |-> "int", n |-> n, l |-> <<>>]
ListClasses(l) == [kind |-> "list", n |-> 0, l |-> l]

\* if isinstance(n_classes, int): n_classes = [n_classes] * n_vars
BroadcastClasses(nc, n_vars) ==
    IF nc.kind = "int" THEN [v \in 1..n_vars |-> nc.n] ELSE nc.l

NRows(cols) == Len(cols[1])

RECURSIVE Prod(_, _)
Prod(dims, from) == IF from > Len(dims) THEN 1 ELSE dims[from] * Prod(dims, from + 1)

RECURSIVE FlatIndex(_, _, _, _)
\* the row-major position (from 0) of the cell that sample t falls in:
\* the sum over the dimensions d..Len(dims) of label * stride
FlatIndex(cols, dims, t, d) ==
    IF d > Len(dims) THEN 0
    ELSE cols[d][t] * Prod(dims, d + 1) + FlatIndex(cols, dims, t, d + 1)

\* hist = np.zeros(dims); np.add.at(hist, cols, 1), flattened row-major
Histogram(cols, dims) ==
    LET cells == [t \in 1..NRows(cols) |-> FlatIndex(cols, dims, t, 1)] \o <<>>
    IN [k \in 1..Prod(dims, 1) |->
           Cardinality({t \in 1..Len(cells) : cells[t] = k - 1})] \o <<>>

\* np.bincount(x, minlength=m): one cell per label up to max(m, max(x) + 1)
Bincount(x, m) ==
    LET size == IF Len(x) = 0 THEN m ELSE Max(m, SeqMax(x) + 1)
    IN [k \in 1..size |-> Cardinality({t \in 1..Len(x) : x[t] = k - 1})] \o <<>>

discrete_univariate_entropy(data, n_classes, at) ==
    LET n_steps == NRows(data)
        h == Bincount(data[at], n_classes[at])
    IN SumTerms(h, Len(h), n_steps)

\* discrete_entropy with at = None
discrete_entropy(data, n_classes) ==
    [i \in 1..Len(data) |-> discrete_univariate_entropy(data, n_classes, i)]

discrete_bivariate_joint_entropy(data, n_classes, i, j) ==
    LET n_steps == NRows(data)
        h == Histogram(<<data[i], data[j]>>, <<n_classes[i], n_classes[j]>>)
    IN SumTerms(h, Len(h), n_steps)

\* a joint entropy matrix whose inner loop starts after the diagonal
JointOffDiagonal(data, n_classes) ==
    [i \in 1..Len(data) |-> [j \in 1..Len(data) |->
        IF i = j THEN Zero
        ELSE discrete_bivariate_joint_entropy(data, n_classes, Min(i, j), Max(i, j))]]

\* a joint entropy matrix whose lower triangle is left as np.zeros made it
JointUpperTriangle(data, n_classes) ==
    [i \in 1..Len(data) |-> [j \in 1..Len(data) |->
        IF j >= i THEN discrete_bivariate_joint_entropy(data, n_classes, i, j) ELSE Zero]]

\* discrete_joint_entropy with at = None: the upper triangle is computed
\* and mirrored, jent[i, j] = jent[j, i] = H(i, j) for j >= i
discrete_joint_entropy(data, n_classes) ==
    [i \in 1..Len(data) |-> [j \in 1..Len(data) |->
        discrete_bivariate_joint_entropy(data, n_classes, Min(i, j), Max(i, j))]]

\* discrete_entropy(data, n_classes, at): one entropy with a selector, the
\* vector of all of them without
DiscreteEntropyAt(data, nc, at) ==
    IF at # <<>>
    THEN discrete_univariate_entropy(data, BroadcastClasses(nc, Len(data)), at[1])
    ELSE discrete_entropy(data, BroadcastClasses(nc, Len(data))) \o <<>>

\* discrete_joint_entropy(data, n_classes, at): one joint entropy with a
\* selector, the matrix of all of them without
DiscreteJointEntropyAt(data, nc, at) ==
    IF at # <<>>
    THEN discrete_bivariate_joint_entropy(data, BroadcastClasses(nc, Len(data)), at[1], at[2])
    ELSE discrete_joint_entropy(data, BroadcastClasses(nc, Len(data)))

\* n_steps is classes[0].shape, a one-element tuple: the division by it
\* broadcasts to the division by the number of rows
discrete_multivar_joint_entropy(classes, n_classes) ==
    LET n_steps == Len(classes[1])
        h == Histogram(classes, n_classes)
    IN SumTerms(h, Len(h), n_steps)

(***************************************************************************)
(* Transfer entropy on class labels.                                       *)
(***************************************************************************)
\* a slice bound as Python normalises it for a sequence of n items
SliceIndex(k, n) == IF k < 0 THEN Max(n + k, 0) ELSE Min(k, n)

\* x[lag:]
SliceFrom(x, lag) == SubSeq(x, SliceIndex(lag, Len(x)) + 1, Len(x))

\* x[:-lag]
SliceUntilMinus(x, lag) == SubSeq(x, 1, SliceIndex(0 - lag, Len(x)))

Current(classes, lag) == [v \in 1..Len(classes) |-> SliceFrom(classes[v], lag)]
Lagged(classes, lag) == [v \in 1..Len(classes) |-> SliceUntilMinus(classes[v], lag)]

\* np.column_stack of 1D arrays raises when their lengths differ
StackRaises(a, b) == Len(a) # Len(b)

\* a transfer entropy that subtracts the entropy of the source's past
TentEntrySourcePast(h_y_ylag, h_xy_lag, h_y_ylag_xlag, h_x_lag, i, j) ==
    Sub(Sub(Add(h_y_ylag, h_xy_lag[i][j]), h_y_ylag_xlag), h_x_lag[j])

\* tent[i, j] = h_y_ylag + h_xy_lag[i, j] - h_y_ylag_xlag - h_x_lag[i]
TentEntry(h_y_ylag, h_xy_lag, h_y_ylag_xlag, h_x_lag, i, j) ==
    Sub(Sub(Add(h_y_ylag, h_xy_lag[i][j]), h_y_ylag_xlag), h_x_lag[i])

\* H(current_i, lagged_i)
HYYlag(current, lagged, n_classes, i) ==
    discrete_bivariate_joint_entropy(<<current[i], lagged[i]>>,
                                     <<n_classes[i], n_classes[i]>>, 1, 2)

\* H(current_i, lagged_i, lagged_j)
HYYlagXlag(current, lagged, n_classes, i, j) ==
    discrete_multivar_joint_entropy(<<current[i], lagged[i], lagged[j]>>,
                                    <<n_classes[i], n_classes[i], n_classes[j]>>)

discrete_transfer_entropy(classes, nc, lag) ==
    LET dim == Len(classes)
        n_classes == BroadcastClasses(nc, dim)
        current == Current(classes, lag)
        lagged == Lagged(classes, lag)
        h_xy_lag == discrete_joint_entropy(lagged, n_classes)
        h_x_lag == discrete_entropy(lagged, n_classes)
    IN IF \E i \in 1..dim : StackRaises(current[i], lagged[i]) THEN Raise
       ELSE Ok([i \in 1..dim |-> [j \in 1..dim |->
                 TentEntry(HYYlag(current, lagged, n_classes, i), h_xy_lag,
                           HYYlagXlag(current, lagged, n_classes, i, j),
                           h_x_lag, i, j)]])

\* a matrix entry of the normalised measures: a plain value, or
\* 1 - num / den with den # 0
Plain(v) == [tag |-> "plain", num |-> v, den |-> Zero, n |-> 0]
OneMinusRatio(a, b) == [tag |-> "one_minus_ratio", num |-> a, den |-> b, n |-> 0]

\* a normalisation that divides without the zero guard
NtentEntryUnguarded(h_y_given_ylag_xlag, h_y_given_ylag) ==
    OneMinusRatio(h_y_given_ylag_xlag, h_y_given_ylag)

\* 1 - h_y_given_ylag_xlag / h_y_given_ylag if h_y_given_ylag != 0 else 0
NtentEntry(h_y_given_ylag_xlag, h_y_given_ylag) ==
    IF h_y_given_ylag # Zero
    THEN OneMinusRatio(h_y_given_ylag_xlag, h_y_given_ylag)
    ELSE Plain(Zero)

discrete_normalized_transfer_entropy(classes, nc, lag) ==
    LET n_vars == Len(classes)
        n_classes == BroadcastClasses(nc, n_vars)
        current == Current(classes, lag)
        lagged == Lagged(classes, lag)
        h_xy_lag == discrete_joint_entropy(lagged, n_classes)
        h_x_lag == discrete_entropy(lagged, n_classes)
    IN IF \E i \in 1..n_vars : StackRaises(current[i], lagged[i]) THEN Raise
       ELSE Ok([i \in 1..n_vars |-> [j \in 1..n_vars |->
                 NtentEntry(Sub(HYYlagXlag(current, lagged, n_classes, i, j),
                                h_xy_lag[i][j]),
                            Sub(HYYlag(current, lagged, n_classes, i), h_x_lag[i]))]])

\* x / np.log(n): the quotient by ln n.  ln 1 = 0.0, and a float division
\* by zero is nan for 0/0 and an infinity otherwise (a warning, no error).
DivLog(x, n) ==
    IF n = 1 THEN [tag |-> IF x = Zero THEN "nan" ELSE "inf", num |-> x, den |-> Zero, n |-> 1]
    ELSE IF x = Zero THEN Plain(Zero)
    ELSE [tag |-> "div_log", num |-> x, den |-> Zero, n |-> n]

\* a normalisation by the bin count of the column's variable
LognDivisorOfColumn(nc, i, j) == IF nc.kind = "int" THEN nc.n ELSE nc.l[j]

\* the bin count whose logarithm divides entry [i, j]:
\* te /= np.log(n_classes) for an integer, te[i] /= np.log(n_classes[i]) else
LognDivisor(nc, i, j) == IF nc.kind = "int" THEN nc.n ELSE nc.l[i]

discrete_logn_normalized_transfer_entropy(classes, nc, lag) ==
    LET te == discrete_transfer_entropy(classes, nc, lag)
    IN IF te.err THEN Raise
       ELSE Ok([i \in 1..Len(te.val) |-> [j \in 1..Len(te.val) |->
                 DivLog(te.val[i][j], LognDivisor(nc, i, j))]])

(***************************************************************************)
(* The continuous facade.  An array is [ndim |-> 1 or 2, c |-> columns]   *)
(* (a 1D array has the one column it is reshaped to); bins are one         *)
(* specification ([kind |-> "single"]) or a list of them; a selector is    *)
(* <<>> for None, else the tuple of its indices.                           *)
(***************************************************************************)
Fail(st) == [st |-> st, r |-> Raise]
Return(st, v) == [st |-> st, r |-> Ok(v)]

SingleBins(b) == [kind |-> "single", l |-> <<b>>]
ListBins(l) == [kind |-> "list", l |-> l]

\* if isinstance(bins, int | np.ndarray): bins = [bins] * n_vars
BroadcastBins(bins, n_vars) ==
    IF bins.kind = "single" THEN [v \in 1..n_vars |-> bins.l[1]] \o <<>> ELSE bins.l

\* data_tuple, bins_tuple, _discretize_nd_data, np.column_stack, n_classes:
\* the class labels and the bin counts of the columns
ColumnStack(d) ==
    IF d.r.err THEN Fail(d.st)
    ELSE Return(d.st, [indices |-> [v \in 1..Len(d.r.val) |-> d.r.val[v].idx] \o <<>>,
                       n_classes |-> [v \in 1..Len(d.r.val) |-> d.r.val[v].nb] \o <<>>])

Discretized(st, data, bins) ==
    ColumnStack(CachedNd(st, data.c, BroadcastBins(bins, Len(data.c))))

\* the outcome r of the discrete function on the class labels d, unless
\* the discretizing raised
OnLabels(d, r) == IF d.r.err THEN d ELSE [st |-> d.st, r |-> r]

InRange(at, n) == \A k \in 1..Len(at) : at[k] \in 1..n

\* return discrete_entropy(indices, n_classes, at)
EntropyOfLabels(d, at) ==
    OnLabels(d, IF at = <<>>
                THEN Ok(discrete_entropy(d.r.val.indices, d.r.val.n_classes) \o <<>>)
                ELSE IF ~InRange(at, Len(d.r.val.indices)) THEN Raise
                ELSE Ok(discrete_univariate_entropy(d.r.val.indices, d.r.val.n_classes,
                                                    at[1])))

entropy(st, data, bins, at) == EntropyOfLabels(Discretized(st, data, bins), at)

\* return discrete_joint_entropy(indices, n_classes, at)
JointEntropyOfLabels(d, at) ==
    OnLabels(d, IF at = <<>>
                THEN Ok(discrete_joint_entropy(d.r.val.indices, d.r.val.n_classes))
                ELSE IF ~InRange(at, Len(d.r.val.indices)) THEN Raise
                ELSE Ok(discrete_bivariate_joint_entropy(d.r.val.indices, d.r.val.n_classes,
                                                         at[1], at[2])))

joint_entropy(st, data, bins, at) ==
    IF data.ndim # 2 THEN Fail(st)
    ELSE JointEntropyOfLabels(Discretized(st, data, bins), at)

\* return discrete_multivar_joint_entropy(classes, n_classes)
MultivarJointEntropyOfLabels(d) ==
    OnLabels(d, Ok(discrete_multivar_joint_entropy(d.r.val.indices, d.r.val.n_classes)))

\* data.shape[1] and the columns of data.T both fail on a 1D array
multivar_joint_entropy(st, data, bins) ==
    IF data.ndim # 2 THEN Fail(st)
    ELSE MultivarJointEntropyOfLabels(Discretized(st, data, bins))

\* a matrix that subtracts the entropy of the row's variable: h_x.reshape(-1, 1)
MinusColumnVector(h_xy, h_x) ==
    [i \in 1..Len(h_xy) |-> [j \in 1..Len(h_xy) |-> Sub(h_xy[i][j], h_x[i])]]

\* h_xy - h_x.reshape(1, -1): the row vector is broadcast down the rows
MinusRowVector(h_xy, h_x) ==
    [i \in 1..Len(h_xy) |-> [j \in 1..Len(h_xy) |-> Sub(h_xy[i][j], h_x[j])]]

\* the values of h_xy = joint_entropy(...) and h_x = entropy(...), unless
\* the first or the second call raised
Both(h_xy, h_x) ==
    IF h_xy.r.err THEN h_xy
    ELSE IF h_x.r.err THEN h_x
    ELSE Return(h_x.st, [h_xy |-> h_xy.r.val, h_x |-> h_x.r.val])

\* h_xy = joint_entropy(...) is followed by h_x = entropy(data, bins, at),
\* which runs on the caches that the first call left
ThenEntropy(h_xy, data, bins, at) == Both(h_xy, entropy(h_xy.st, data, bins, at))

\* return h_xy - h_x, or return h_xy - h_x.reshape(1, -1)
ConditionalOf(h, at) ==
    IF h.r.err THEN h
    ELSE IF at # <<>> THEN Return(h.st, Sub(h.r.val.h_xy, h.r.val.h_x))
    ELSE Return(h.st, MinusRowVector(h.r.val.h_xy, h.r.val.h_x))

\* a selector form that takes the entropy of the first index: at[0]
ConditionalEntropyFirstIndex(st, data, bins, at) ==
    IF data.ndim < 2 THEN Fail(st)
    ELSE IF at # <<>>
    THEN ConditionalOf(ThenEntropy(joint_entropy(st, data, bins, at), data, bins, <<at[1]>>),
                       at)
    ELSE ConditionalOf(ThenEntropy(joint_entropy(st, data, bins, <<>>), data, bins, <<>>),
                       at)

conditional_entropy(st, data, bins, at) ==
    IF data.ndim < 2 THEN Fail(st)
    ELSE IF at # <<>>
    THEN ConditionalOf(ThenEntropy(joint_entropy(st, data, bins, at), data, bins, <<at[2]>>),
                       at)
    ELSE ConditionalOf(ThenEntropy(joint_entropy(st, data, bins, <<>>), data, bins, <<>>),
                       at)

\* an entry of the mutual information: num, or num / sqrt(hi * hj)
MiEntry(num, hi, hj, norm) == [num |-> num, norm |-> norm, hi |-> hi, hj |-> hj]

\* i, j = np.meshgrid(range(dim), range(dim)): i[a][b] = b and j[a][b] = a;
\* mi = h_x[i] + h_x[j] - h_xy[i, j]
MutualOf(h, dim, norm) ==
    IF h.r.err THEN h
    ELSE Return(h.st,
           [a \in 1..dim |-> [b \in 1..dim |->
               MiEntry(Sub(Add(h.r.val.h_x[b], h.r.val.h_x[a]), h.r.val.h_xy[b][a]),
                       h.r.val.h_x[b], h.r.val.h_x[a], norm)]])

mutual_information(st, data, bins, norm) ==
    IF data.ndim = 1 THEN Fail(st)
    ELSE MutualOf(ThenEntropy(joint_entropy(st, data, bins, <<>>), data, bins, <<>>),
                  Len(data.c), norm)

\* return discrete_transfer_entropy(indices, n_classes, lag)
TransferEntropyOfLabels(d, lag) ==
    OnLabels(d, discrete_transfer_entropy(d.r.val.indices,
                                          ListClasses(d.r.val.n_classes), lag))

\* n_vars = data.shape[1] fails on a 1D array
transfer_entropy(st, data, bins, lag) ==
    IF data.ndim # 2 THEN Fail(st)
    ELSE TransferEntropyOfLabels(Discretized(st, data, bins), lag)

\* return discrete_normalized_transfer_entropy(indices, n_classes, lag)
NormalizedTransferEntropyOfLabels(d, lag) ==
    OnLabels(d, discrete_normalized_transfer_entropy(d.r.val.indices,
                                                     ListClasses(d.r.val.n_classes), lag))

\* n_steps, n_vars = data.shape fails on a 1D array
normalized_transfer_entropy(st, data, bins, lag) ==
    IF data.ndim # 2 THEN Fail(st)
    ELSE NormalizedTransferEntropyOfLabels(Discretized(st, data, bins), lag)

\* return discrete_logn_normalized_transfer_entropy(classes, n_classes, lag)
LognNormalizedTransferEntropyOfLabels(d, lag) ==
    OnLabels(d, discrete_logn_normalized_transfer_entropy(d.r.val.indices,
                                                          ListClasses(d.r.val.n_classes), lag))

logn_normalized_transfer_entropy(st, data, bins, lag) ==
    IF data.ndim # 2 THEN Fail(st)
    ELSE LognNormalizedTransferEntropyOfLabels(Discretized(st, data, bins), lag)

\* class-label arrays of two variables, and the bin counts that hold them
Labels == {0, 1}
LabelArrays == UNION {[1..2 -> [1..n -> Labels]] : n \in 1..MaxRows}
ClassLists == {<<1, 1>>, <<1, 2>>, <<2, 1>>, <<2, 3>>, <<3, 2>>}
ClassSpecs == {IntClasses(2)} \cup {ListClasses(l) : l \in ClassLists}
HoldsLabels(classes, nc) ==
    \A v \in 1..Len(classes) : \A t \in 1..NRows(classes) :
        classes[v][t] < BroadcastClasses(nc, Len(classes))[v]
Lags == {0 - 2, 0, 1, 2, MaxRows, MaxRows + 1}

(***************************************************************************)
(* State: call is the call under way, drawn when the specification starts; *)
(* pc is "ready" before the operation has run and "done" after it; out is  *)
(* its outcome; cache1d and cacheNd are the two LRU caches.                *)
(***************************************************************************)
Start(calls) ==
    /\ pc = "ready"
    /\ call \in calls
    /\ out = Raise
    /\ cache1d = <<>>
    /\ cacheNd = <<>>

Calling(op) == pc = "ready" /\ call.op = op
Done(op) == pc = "done" /\ call.op = op

(***************************************************************************)
(* The discretizer, called directly.                                       *)
(***************************************************************************)
DiscretizerCalls ==
    {[op |-> "discretize_1d_data", data |-> data, bins |-> bins] :
        data \in Columns, bins \in BinSpecs}

\* _discretize_1d_data(data, bins)
Discretize1d ==
    /\ Calling("discretize_1d_data")
    /\ LET res == Cached1d(cache1d, call.data, call.bins)
       IN /\ out' = res.r
          /\ cache1d' = res.c1
    /\ pc' = "done"
    /\ UNCHANGED <<call, cacheNd>>

InitDiscretizer == Start(DiscretizerCalls)

NextDiscretizer == Discretize1d

SpecDiscretizer == InitDiscretizer /\ [][NextDiscretizer]_vars

(***************************************************************************)
(* Properties of the discretizer.                                          *)
(***************************************************************************)
\* the outer edges of the call's bins: of the data for an integer count
LeftEdge == IF call.bins.kind = "int" THEN SeqMin(call.data) ELSE call.bins.e[1]
RightEdge ==
    IF call.bins.kind = "int" THEN SeqMax(call.data) ELSE call.bins.e[Len(call.bins.e)]
BinCount == IF call.bins.kind = "int" THEN call.bins.n ELSE Len(call.bins.e) - 1
DataInEdges ==
    \A t \in 1..Len(call.data) : LeftEdge <= call.data[t] /\ call.data[t] <= RightEdge

C5_RangeError ==
    (Done("discretize_1d_data") /\ call.bins.kind = "edges") =>
        /\ out.err <=> \E t \in 1..Len(call.data) :
                          \/ call.data[t] < call.bins.e[1]
                          \/ call.data[t] > call.bins.e[Len(call.bins.e)]
        /\ out.err => out.val = <<>>
        /\ ~out.err => out.val.nb = Len(call.bins.e) - 1

\* a value above the last edge, no value below the first edge: an error
C5_Witness ==
    /\ Done("discretize_1d_data")
    /\ call.bins.kind = "edges"
    /\ out.err
    /\ \A t \in 1..Len(call.data) : call.data[t] >= call.bins.e[1]
    /\ \E t \in 1..Len(call.data) : call.data[t] > call.bins.e[Len(call.bins.e)]

(***************************************************************************)
(* The transfer entropy measures on class labels.                          *)
(***************************************************************************)
DiscreteOps ==
    {"discrete_transfer_entropy", "discrete_normalized_transfer_entropy",
     "discrete_logn_normalized_transfer_entropy"}

DiscreteCalls ==
    {c \in [op : DiscreteOps, classes : LabelArrays, nc : ClassSpecs, lag : Lags] :
        HoldsLabels(c.classes, c.nc)}

\* discrete_transfer_entropy(classes, n_classes, lag)
DiscreteTransferEntropy ==
    /\ Calling("discrete_transfer_entropy")
    /\ out' = discrete_transfer_entropy(call.classes, call.nc, call.lag)
    /\ pc' = "done"
    /\ UNCHANGED <<call, cache1d, cacheNd>>

\* discrete_normalized_transfer_entropy(classes, n_classes, lag)
DiscreteNormalizedTransferEntropy ==
    /\ Calling("discrete_normalized_transfer_entropy")
    /\ out' = discrete_normalized_transfer_entropy(call.classes, call.nc, call.lag)
    /\ pc' = "done"
    /\ UNCHANGED <<call, cache1d, cacheNd>>

\* discrete_logn_normalized_transfer_entropy(classes, n_classes, lag)
DiscreteLognNormalizedTransferEntropy ==
    /\ Calling("discrete_logn_normalized_transfer_entropy")
    /\ out' = discrete_logn_normalized_transfer_entropy(call.classes, call.nc, call.lag)
    /\ pc' = "done"
    /\ UNCHANGED <<call, cache1d, cacheNd>>

InitDiscrete == Start(DiscreteCalls)

NextDiscrete ==
    \/ DiscreteTransferEntropy
    \/ DiscreteNormalizedTransferEntropy
    \/ DiscreteLognNormalizedTransferEntropy

SpecDiscrete == InitDiscrete /\ [][NextDiscrete]_vars

(***************************************************************************)
(* Properties of the transfer entropy measures.  The reference entropies   *)
(* count samples: sample t of 1..n-lag pairs row t+lag (current) with row  *)
(* t (lagged).                                                             *)
(***************************************************************************)
RECURSIVE RefSum(_, _, _)
\* the sum over the samples 1..t of ln m - ln c(t), as the exponent of p,
\* c(t) the number of samples with the same key as sample t
RefSum(keys, t, p) ==
    IF t = 0 THEN 0
    ELSE LET m == Len(keys)
             c == Cardinality({u \in 1..m : keys[u] = keys[t]})
         IN RefSum(keys, t - 1, p) + Val(p, m) - Val(p, c)

\* the Shannon entropy of the empirical distribution of the keys
RefEntropy(keys) ==
    IF Len(keys) = 0 THEN Zero
    ELSE Norm([den |-> Len(keys), co |-> [p \in Primes |-> RefSum(keys, Len(keys), p)]])

CallRows == NRows(call.classes)
ValidLag == 1 <= call.lag /\ call.lag < CallRows
Samples == 1..(CallRows - call.lag)
Cur(i, t) == call.classes[i][t + call.lag]
Lag(i, t) == call.classes[i][t]
CallClasses == BroadcastClasses(call.nc, Len(call.classes))
VarIdx == 1..Len(call.classes)

RefHLag(i) == RefEntropy([t \in Samples |-> <<Lag(i, t)>>] \o <<>>)
RefHCurLag(i) == RefEntropy([t \in Samples |-> <<Cur(i, t), Lag(i, t)>>] \o <<>>)
RefHLagLag(i, j) == RefEntropy([t \in Samples |-> <<Lag(i, t), Lag(j, t)>>] \o <<>>)
RefHCurLagLag(i, j) ==
    RefEntropy([t \in Samples |-> <<Cur(i, t), Lag(i, t), Lag(j, t)>>] \o <<>>)

\* C1 as stated: a lag outside 1 <= lag < n_rows makes the call fail.
C1_BadLagRaises == (Done("discrete_transfer_entropy") /\ ~ValidLag) => out.err

\* C9: for 1 <= lag < n_rows, entry [i,j] is
\* H(cur_i, lag_i) + H(lag_i, lag_j) - H(cur_i, lag_i, lag_j) - H(lag_i).
C9_TransferEntropyFormula ==
    (Done("discrete_transfer_entropy") /\ ValidLag) =>
        /\ ~out.err
        /\ \A i, j \in VarIdx :
              out.val[i][j] =
                  Sub(Sub(Add(RefHCurLag(i), RefHLagLag(i, j)), RefHCurLagLag(i, j)),
                      RefHLag(i))

\* transfer entropy flows one way only, and the pasts differ in entropy
C9_Witness ==
    /\ Done("discrete_transfer_entropy")
    /\ ValidLag
    /\ ~out.err
    /\ out.val[1][2] # Zero
    /\ out.val[2][1] = Zero
    /\ RefHLag(1) # RefHLag(2)

\* C10: entry [i,j] of the normalised measure is 0 when
\* H(cur_i, lag_i) - H(lag_i) is 0, and otherwise
\* 1 - (H(cur_i, lag_i, lag_j) - H(lag_i, lag_j)) / (H(cur_i, lag_i) - H(lag_i));
\* no entry of a returned matrix is a NaN or an infinity.
C10_NormalizedGuard ==
    Done("discrete_normalized_transfer_entropy") =>
        /\ ValidLag =>
              /\ ~out.err
              /\ \A i, j \in VarIdx :
                    LET den == Sub(RefHCurLag(i), RefHLag(i))
                        num == Sub(RefHCurLagLag(i, j), RefHLagLag(i, j))
                    IN out.val[i][j] =
                          IF den = Zero THEN Plain(Zero) ELSE OneMinusRatio(num, den)
        /\ ~out.err =>
              \A i, j \in VarIdx :
                  \/ out.val[i][j] = Plain(Zero)
                  \/ out.val[i][j].tag = "one_minus_ratio" /\ out.val[i][j].den # Zero

\* one target with a zero denominator, the other with a positive one
C10_Witness ==
    /\ Done("discrete_normalized_transfer_entropy")
    /\ ValidLag
    /\ ~out.err
    /\ Sub(RefHCurLag(1), RefHLag(1)) = Zero
    /\ out.val[1][2] = Plain(Zero)
    /\ out.val[2][1].tag = "one_minus_ratio"

RawTransferEntropy == discrete_transfer_entropy(call.classes, call.nc, call.lag)

\* C2 as stated: entry [i,j] is the raw entry divided by ln(n_bins of the
\* source variable j).
C2_AsStated ==
    (Done("discrete_logn_normalized_transfer_entropy") /\ ~out.err) =>
        \A i, j \in VarIdx :
            out.val[i][j] = DivLog(RawTransferEntropy.val[i][j], CallClasses[j])

\* C2 amended: entry [i,j] is the raw entry divided by ln(n_bins of the
\* target variable i), the variable of the row; the call fails exactly when
\* the raw measure fails; with one bin for the target the divisor is
\* ln 1 = 0 and the entry is 0/0, a NaN.
C2_DividedByTargetBins ==
    Done("discrete_logn_normalized_transfer_entropy") =>
        /\ out.err <=> RawTransferEntropy.err
        /\ ~out.err =>
              \A i, j \in VarIdx :
                  /\ out.val[i][j] = DivLog(RawTransferEntropy.val[i][j], CallClasses[i])
                  /\ CallClasses[i] = 1 => out.val[i][j].tag = "nan"
                  /\ CallClasses[i] > 1 /\ RawTransferEntropy.val[i][j] # Zero
                        => /\ out.val[i][j].tag = "div_log"
                           /\ out.val[i][j].n = CallClasses[i]

\* a non-zero entry whose target and source have different bin counts
C2_Witness ==
    /\ Done("discrete_logn_normalized_transfer_entropy")
    /\ ~out.err
    /\ call.nc.kind = "list"
    /\ \E i, j \in VarIdx :
          /\ CallClasses[i] # CallClasses[j]
          /\ out.val[i][j].tag = "div_log"
          /\ out.val[i][j].n = CallClasses[i]

(***************************************************************************)
(* The facade operations, each on the caches of a fresh process.           *)
(***************************************************************************)
FacadeValues == {0, 1}
FacadeColumns == SeqsUpTo(FacadeValues, 1, MaxRowsF)
SameLength(cols) == \A v \in 1..Len(cols) : Len(cols[v]) = Len(cols[1])

\* 1D arrays, and 2D arrays of one or two variables
Arrays ==
    {[ndim |-> 1, c |-> <<x>>] : x \in FacadeColumns}
        \cup {[ndim |-> 2, c |-> c] :
                 c \in {cc \in SeqsUpTo(FacadeColumns, 1, 2) : SameLength(cc)}}

FacadeBinSpecs == {IntBins(2), EdgeBins(<<0, 1, 2>>), EdgeBins(<<1, 2>>)}
FacadeBins ==
    {SingleBins(b) : b \in FacadeBinSpecs}
        \cup {ListBins(l) : l \in SeqsUpTo(FacadeBinSpecs, 1, 2)}

FacadeLags == {0 - 1, 0, 1, 2, MaxRowsF}
Selectors1 == {<<>>, <<1>>, <<2>>}
Selectors2 == {<<>>, <<1, 1>>, <<1, 2>>, <<2, 1>>}

FacadeCall(ops, ats, lags, norms) ==
    [op : ops, data : Arrays, bins : FacadeBins, at : ats, lag : lags, norm : norms]

TransferOps ==
    {"transfer_entropy", "normalized_transfer_entropy", "logn_normalized_transfer_entropy"}

FacadeOps ==
    {"entropy", "joint_entropy", "conditional_entropy", "multivar_joint_entropy",
     "mutual_information"} \cup TransferOps

FacadeCalls ==
    FacadeCall({"entropy"}, Selectors1, {0}, {FALSE})
        \cup FacadeCall({"joint_entropy", "conditional_entropy"}, Selectors2, {0}, {FALSE})
        \cup FacadeCall({"multivar_joint_entropy"}, {<<>>}, {0}, {FALSE})
        \cup FacadeCall({"mutual_information"}, {<<>>}, {0}, BOOLEAN)
        \cup FacadeCall(TransferOps, {<<>>}, FacadeLags, {FALSE})

Caches == [c1 |-> cache1d, cN |-> cacheNd]

\* the outcome and the caches after a facade operation that returned res
Finish(res) ==
    /\ out' = res.r
    /\ cache1d' = res.st.c1
    /\ cacheNd' = res.st.cN
    /\ pc' = "done"
    /\ UNCHANGED call

Entropy ==
    /\ Calling("entropy")
    /\ Finish(entropy(Caches, call.data, call.bins, call.at))

JointEntropy ==
    /\ Calling("joint_entropy")
    /\ Finish(joint_entropy(Caches, call.data, call.bins, call.at))

MultivarJointEntropy ==
    /\ Calling("multivar_joint_entropy")
    /\ Finish(multivar_joint_entropy(Caches, call.data, call.bins))

ConditionalEntropy ==
    /\ Calling("conditional_entropy")
    /\ Finish(conditional_entropy(Caches, call.data, call.bins, call.at))

MutualInformation ==
    /\ Calling("mutual_information")
    /\ Finish(mutual_information(Caches, call.data, call.bins, call.norm))

TransferEntropy ==
    /\ Calling("transfer_entropy")
    /\ Finish(transfer_entropy(Caches, call.data, call.bins, call.lag))

NormalizedTransferEntropy ==
    /\ Calling("normalized_transfer_entropy")
    /\ Finish(normalized_transfer_entropy(Caches, call.data, call.bins, call.lag))

LognNormalizedTransferEntropy ==
    /\ Calling("logn_normalized_transfer_entropy")
    /\ Finish(logn_normalized_transfer_entropy(Caches, call.data, call.bins, call.lag))

InitFacade == Start(FacadeCalls)

NextFacade ==
    \/ Entropy
    \/ JointEntropy
    \/ MultivarJointEntropy
    \/ ConditionalEntropy
    \/ MutualInformation
    \/ TransferEntropy
    \/ NormalizedTransferEntropy
    \/ LognNormalizedTransferEntropy

SpecFacade == InitFacade /\ [][NextFacade]_vars

(***************************************************************************)
(* Properties of the facade.                                               *)
(***************************************************************************)
FacadeDone == pc = "done" /\ call.op \in FacadeOps
NVars == Len(call.data.c)
SingleVariable == call.data.ndim = 1 \/ NVars = 1

\* C3 as stated: joint_entropy, conditional_entropy, mutual_information and
\* transfer_entropy fail on single-variable data, 1D or 2D with one column.
C3_SingleVariableRaises ==
    (/\ pc = "done"
     /\ call.op \in {"joint_entropy", "conditional_entropy", "mutual_information",
                     "transfer_entropy"}
     /\ SingleVariable) => out.err

\* C6: a list of bin specifications whose length is not the number of
\* variables makes every facade operation fail with no value; a single
\* specification reaches the discretizer once per variable.
C6_BinListMustMatch ==
    FacadeDone =>
        /\ (call.bins.kind = "list" /\ Len(call.bins.l) # NVars)
              => out.err /\ out.val = <<>> /\ cacheNd = <<>>
        /\ (call.bins.kind = "single" /\ ~out.err)
              => /\ Len(cacheNd) = 1
                 /\ cacheNd[1].key = <<call.data.c, [v \in 1..NVars |-> call.bins.l[1]]>>

\* two variables and a list of one specification: the first column is
\* discretized, then the call fails
C6_Witness ==
    /\ FacadeDone
    /\ call.op = "transfer_entropy"
    /\ NVars = 2
    /\ call.bins.kind = "list"
    /\ Len(call.bins.l) = 1
    /\ out.err
    /\ Len(cache1d) = 1

\* the class labels of the call's variables, computed without the caches
LabelsOf(v) == discretize_1d_data(call.data.c[v], BroadcastBins(call.bins, NVars)[v]).val.idx
DataRows == 1..Len(call.data.c[1])
RefJoint(i, j) == RefEntropy([t \in DataRows |-> <<LabelsOf(i)[t], LabelsOf(j)[t]>>] \o <<>>)
RefMarginal(i) == RefEntropy([t \in DataRows |-> <<LabelsOf(i)[t]>>] \o <<>>)

\* C8: entry [i,j] of conditional_entropy is H(X_i, X_j) - H(X_j), the
\* entropy of the second index, and the selector form at=(i,j) is the same
\* difference.
C8_ConditionalDirection ==
    (Done("conditional_entropy") /\ ~out.err) =>
        IF call.at = <<>>
        THEN \A i, j \in 1..NVars : out.val[i][j] = Sub(RefJoint(i, j), RefMarginal(j))
        ELSE out.val = Sub(RefJoint(call.at[1], call.at[2]), RefMarginal(call.at[2]))

\* a matrix whose [1,2] and [2,1] entries differ
C8_Witness ==
    /\ Done("conditional_entropy")
    /\ ~out.err
    /\ call.at = <<>>
    /\ NVars = 2
    /\ out.val[1][2] = Zero
    /\ out.val[2][1] # Zero

(***************************************************************************)
(* Memoization: any sequence of calls in one process, the caches kept      *)
(* from call to call.  call.hit tells whether the call found its key in    *)
(* the cache of _discretize_nd_data, call.evicted whether that cache has   *)
(* dropped an entry since the process started.                             *)
(***************************************************************************)
CacheColumns == {<<0, 1>>, <<1, 1>>}
\* 1D arrays, 2D arrays of one column, and a 2D array of two columns
CacheArrays ==
    {[ndim |-> 1, c |-> <<x>>] : x \in CacheColumns}
        \cup {[ndim |-> 2, c |-> <<x>>] : x \in CacheColumns}
        \cup {[ndim |-> 2, c |-> <<(<<0, 1>>), (<<1, 1>>)>>]}
CacheBinSpecs == {IntBins(3), EdgeBins(<<0, 1, 2>>)}
CacheBins ==
    {SingleBins(b) : b \in CacheBinSpecs}
        \cup {ListBins(<<IntBins(3), EdgeBins(<<0, 1, 2>>)>>)}

InitCache ==
    /\ pc = "ready"
    /\ call = [op |-> "none", data |-> [ndim |-> 1, c |-> <<>>], bins |-> ListBins(<<>>),
               hit |-> FALSE, evicted |-> FALSE]
    /\ out = Raise
    /\ cache1d = <<>>
    /\ cacheNd = <<>>

NdKey(data, bins) == CacheKey(data.c, BroadcastBins(bins, Len(data.c)))

\* the call record of the next call, and the caches after it
Memoized(op, data, bins, res) ==
    /\ call' = [op |-> op, data |-> data, bins |-> bins,
                hit |-> Find(cacheNd, NdKey(data, bins)) # {},
                evicted |-> \/ call.evicted
                            \/ \E k \in 1..Len(cacheNd) :
                                  Find(res.st.cN, cacheNd[k].key) = {}]
    /\ out' = res.r
    /\ cache1d' = res.st.c1
    /\ cacheNd' = res.st.cN
    /\ pc' = "done"

\* entropy(data, bins), once more
EntropyAgain ==
    \E data \in CacheArrays, bins \in CacheBins :
        Memoized("entropy", data, bins, entropy(Caches, data, bins, <<>>))

\* _discretize_nd_data(data_tuple, bins_tuple), once more
DiscretizeNdAgain ==
    \E data \in CacheArrays, bins \in CacheBins :
        Memoized("discretize_nd_data", data, bins,
                 CachedNd(Caches, data.c, BroadcastBins(bins, Len(data.c))))

NextCache == EntropyAgain \/ DiscretizeNdAgain

SpecCache == InitCache /\ [][NextCache]_vars

\* the labels and bin counts of the columns, computed with no cache
Uncached(data_tuple, bins_tuple) ==
    IF \/ Len(data_tuple) # Len(bins_tuple)
       \/ \E v \in 1..Len(data_tuple) : discretize_1d_data(data_tuple[v], bins_tuple[v]).err
    THEN Raise
    ELSE Ok([v \in 1..Len(data_tuple) |-> discretize_1d_data(data_tuple[v], bins_tuple[v]).val])

\* the entropies of the columns from the uncached labels
UncachedEntropy(data, bins) ==
    LET d == Uncached(data.c, BroadcastBins(bins, Len(data.c)))
    IN IF d.err THEN Raise
       ELSE Ok([v \in 1..Len(d.val) |->
                   RefEntropy([t \in 1..Len(d.val[v].idx) |-> <<d.val[v].idx[t]>>] \o <<>>)])

\* C7: after any sequence of calls a call returns what the uncached
\* computation on its data and bins returns, every cached entry holds the
\* uncached labels of its key, and no cache outgrows maxsize.
C7_MemoizationTransparent ==
    /\ call.op = "discretize_nd_data"
          => out = Uncached(call.data.c, BroadcastBins(call.bins, Len(call.data.c)))
    /\ call.op = "entropy" => out = UncachedEntropy(call.data, call.bins)
    /\ Len(cache1d) <= maxsize /\ Len(cacheNd) <= maxsize
    /\ \A k \in 1..Len(cache1d) :
          Ok(cache1d[k].val) = discretize_1d_data(cache1d[k].key[1], cache1d[k].key[2])
    /\ \A k \in 1..Len(cacheNd) :
          Ok(cacheNd[k].val) = Uncached(cacheNd[k].key[1], cacheNd[k].key[2])
    /\ \A k, m \in 1..Len(cacheNd) : cacheNd[k].key = cacheNd[m].key => k = m

\* a 2D array's entropy answered from the cache, after an eviction, for a
\* key that 1D and 2D arrays of the same values share
C7_Witness ==
    /\ call.op = "entropy"
    /\ call.data.ndim = 2
    /\ Len(call.data.c) = 1
    /\ call.hit
    /\ call.evicted
    /\ ~out.err
    /\ Len(cacheNd) = maxsize

(***************************************************************************)
(* The discrete entropy and the discrete joint entropy, called directly    *)
(* on class labels, with a selector and without.                           *)
(***************************************************************************)
EntropySelectors == {<<>>, <<1>>, <<2>>}
JointSelectors == {<<>>} \cup ((1..2) \X (1..2))

JointCalls ==
    {c \in [op : {"discrete_entropy"}, classes : LabelArrays, nc : ClassSpecs,
            at : EntropySelectors]
            \cup [op : {"discrete_joint_entropy"}, classes : LabelArrays, nc : ClassSpecs,
                  at : JointSelectors] :
        HoldsLabels(c.classes, c.nc)}

\* discrete_entropy(data, n_classes, at)
DiscreteEntropy ==
    /\ Calling("discrete_entropy")
    /\ out' = Ok(DiscreteEntropyAt(call.classes, call.nc, call.at))
    /\ pc' = "done"
    /\ UNCHANGED <<call, cache1d, cacheNd>>

\* discrete_joint_entropy(data, n_classes, at)
DiscreteJointEntropy ==
    /\ Calling("discrete_joint_entropy")
    /\ out' = Ok(DiscreteJointEntropyAt(call.classes, call.nc, call.at))
    /\ pc' = "done"
    /\ UNCHANGED <<call, cache1d, cacheNd>>

InitJoint == Start(JointCalls)

NextJoint == DiscreteEntropy \/ DiscreteJointEntropy

SpecJoint == InitJoint /\ [][NextJoint]_vars

\* the co-occurrence histogram of the variables i and j of the call, and its
\* cell for the labels a of i and b of j
PairHist(i, j) ==
    Histogram(<<call.classes[i], call.classes[j]>>, <<CallClasses[i], CallClasses[j]>>)
PairCell(i, j, a, b) == PairHist(i, j)[a * CallClasses[j] + b + 1]
LabelsUnder(i) == 0..(CallClasses[i] - 1)

\* C11: the joint entropy matrix is symmetric, jent[i,j] = jent[j,i]; the
\* histograms of at=(i,j) and at=(j,i) are transposes of each other, and
\* the selector at=(i,j) returns what the selector at=(j,i) returns.
C11_JointSymmetric ==
    Done("discrete_joint_entropy") =>
        IF call.at = <<>>
        THEN \A i, j \in VarIdx : out.val[i][j] = out.val[j][i]
        ELSE /\ \A a \in LabelsUnder(call.at[1]), b \in LabelsUnder(call.at[2]) :
                   PairCell(call.at[1], call.at[2], a, b)
                       = PairCell(call.at[2], call.at[1], b, a)
             /\ out.val = DiscreteJointEntropyAt(call.classes, call.nc,
                                                 <<call.at[2], call.at[1]>>)

\* a matrix with a non-zero off-diagonal entry, over variables of
\* different class counts
C11_Witness ==
    /\ Done("discrete_joint_entropy")
    /\ call.at = <<>>
    /\ CallClasses[1] # CallClasses[2]
    /\ out.val[2][1] # Zero
    /\ out.val[2][1] # out.val[1][1]

\* the per-bin counts of variable i of the call
BinCounts(i) == Bincount(call.classes[i], CallClasses[i])

\* C12: the diagonal entry [i,i] of the joint entropy matrix is the
\* entropy of variable i, as discrete_entropy returns it; the histogram of
\* the pair (X_i, X_i) is zero off its diagonal and holds the per-bin
\* counts of X_i on it.
C12_DiagonalIsMarginal ==
    (Done("discrete_joint_entropy") /\ call.at = <<>>) =>
        \A i \in VarIdx :
            /\ out.val[i][i] = DiscreteEntropyAt(call.classes, call.nc, <<i>>)
            /\ out.val[i][i] = RefEntropy([t \in 1..CallRows |-> call.classes[i][t]] \o <<>>)
            /\ \A a, b \in LabelsUnder(i) :
                   PairCell(i, i, a, b) = IF a = b THEN BinCounts(i)[a + 1] ELSE 0

\* a matrix whose two diagonal entries are different and not zero
C12_Witness ==
    /\ Done("discrete_joint_entropy")
    /\ call.at = <<>>
    /\ out.val[1][1] # Zero
    /\ out.val[2][2] # Zero
    /\ out.val[1][1] # out.val[2][2]

(***************************************************************************)
(* The facade operations that take a selector, each on the caches of a     *)
(* fresh process, over every integer bin count.                            *)
(***************************************************************************)
SelectBinSpecs == {IntBins(n) : n \in 1..MaxBins} \cup {EdgeBins(<<0, 1, 2>>)}
SelectBins ==
    {SingleBins(b) : b \in SelectBinSpecs}
        \cup {ListBins(l) : l \in SeqsUpTo(SelectBinSpecs, 2, 2)}

SelectCall(ops, ats) ==
    [op : ops, data : Arrays, bins : SelectBins, at : ats, lag : {0}, norm : {FALSE}]

SelectCalls ==
    SelectCall({"entropy"}, EntropySelectors)
        \cup SelectCall({"joint_entropy", "conditional_entropy"}, JointSelectors)

InitSelect == Start(SelectCalls)

NextSelect ==
    \/ Entropy
    \/ JointEntropy
    \/ ConditionalEntropy

SpecSelect == InitSelect /\ [][NextSelect]_vars

\* variable v of the call is constant and binned by an integer count
IsConstant(v) == \A t \in DataRows : call.data.c[v][t] = call.data.c[v][1]
IntBinned(v) == BroadcastBins(call.bins, NVars)[v].kind = "int"
BinsOf(v) == BroadcastBins(call.bins, NVars)[v].n

\* C13: a constant variable binned by an integer count n >= 1 has every
\* sample in the one bin n - 1, which holds all the samples while every
\* other bin is empty, and its entropy is exactly 0.
C13_ConstantHasZeroEntropy ==
    (Done("entropy") /\ ~out.err) =>
        \A v \in 1..NVars :
            (IsConstant(v) /\ IntBinned(v)) =>
                /\ \A t \in DataRows : LabelsOf(v)[t] = BinsOf(v) - 1
                /\ Bincount(LabelsOf(v), BinsOf(v))
                       = [k \in 1..BinsOf(v) |->
                             IF k = BinsOf(v) THEN Len(call.data.c[v]) ELSE 0]
                /\ IF call.at = <<>> THEN out.val[v] = Zero
                   ELSE call.at[1] = v => out.val = Zero

\* the entropy of a constant column of several samples in three bins,
\* beside a column that is not constant
C13_Witness ==
    /\ Done("entropy")
    /\ ~out.err
    /\ call.at = <<>>
    /\ NVars = 2
    /\ IsConstant(1) /\ IntBinned(1) /\ BinsOf(1) = 3
    /\ Len(call.data.c[1]) > 1
    /\ out.val[1] = Zero
    /\ out.val[2] # Zero

\* the caches of a fresh process, and what the call's operation returns in
\* one when it is called on the call's data and bins without a selector
Fresh == [c1 |-> <<>>, cN |-> <<>>]
Full ==
    IF call.op = "entropy" THEN entropy(Fresh, call.data, call.bins, <<>>).r
    ELSE IF call.op = "joint_entropy" THEN joint_entropy(Fresh, call.data, call.bins, <<>>).r
    ELSE conditional_entropy(Fresh, call.data, call.bins, <<>>).r

\* the call has a selector, its indices are indices of variables, and the
\* call without the selector returns a value
Selected ==
    /\ pc = "done"
    /\ call.op \in {"entropy", "joint_entropy", "conditional_entropy"}
    /\ call.at # <<>>
    /\ InRange(call.at, NVars)
    /\ ~Full.err

\* C14: a call with a selector returns the entry of the full result at the
\* selector: entropy(at=k) = entropy()[k], joint_entropy(at=(i,j)) =
\* joint_entropy()[i,j], also below the diagonal, and
\* conditional_entropy(at=(i,j)) = conditional_entropy()[i,j].
C14_SelectorIsEntry ==
    Selected =>
        /\ ~out.err
        /\ out.val = IF call.op = "entropy" THEN Full.val[call.at[1]]
                     ELSE Full.val[call.at[1]][call.at[2]]

\* a conditional entropy selected below the diagonal, where the entry
\* above the diagonal is another value
C14_Witness ==
    /\ Selected
    /\ call.op = "conditional_entropy"
    /\ call.at = <<2, 1>>
    /\ out.val # Zero
    /\ out.val # Full.val[1][2]

====
